---- MODULE Spec2Model ----
(***************************************************************************)
(* ManagerDeviceList (blueman/gui/manager/ManagerDeviceList.py): the list  *)
(* of discovered devices of the device manager, as a state machine.        *)
(*                                                                         *)
(* The toolkit runs every handler to completion on one event loop, so each *)
(* handler is one atomic action.  Handlers are written as operators that   *)
(* take and return a "world" record w = [rows, faders, fh, err, log]:      *)
(*   rows    the liststore rows, keyed by a row id (a TreeRowReference     *)
(*           is valid while its id is in DOMAIN rows)                      *)
(*   faders  the TreeRowFade / CellFade objects, keyed by <<kind, row id>> *)
(*   fh      self._faderhandlers (object path -> handler id)               *)
(*   err     TRUE once a handler raised (KeyError in dict.pop)             *)
(*   log     the effects of the running handler on things outside the      *)
(*           list (signals emitted, animations started, set() calls)       *)
(* Percentages are floats in the source; the model keeps them exact as     *)
(* integers scaled by PercScale (no reading of the ranges used here falls  *)
(* on a rounding tie or on the boundary of a comparison).                  *)
(***************************************************************************)
EXTENDS Integers, Sequences, FiniteSets, TLC

\* ------------------------------------------------------------ bounds
MaxHandlers == 2
FadeSteps == 2

\* ------------------------------------------------- program constants
RssiMax == 127
LqMax == 255
ObexObjpush == 4357

PercScale == RssiMax * LqMax
Pct(n) == n * PercScale

Devices == {"devA", "devB"}
Address(d) == IF d = "devA" THEN "AA:AA" ELSE "BB:BB"
Icon(d) == IF d = "devA" THEN "phone" ELSE "input-keyboard"
Themes == {"light", "dark"}

\* As many rows are ever appended as there are devices: every device can
\* have a row at once, and one device can be removed and added again
MaxRows == Cardinality(Devices)

None == <<>>
NoDevice == "none"

\* ------------------------------------------------------------ state
VARIABLES
    rows,           \* row id -> row record (the liststore's rows)
    liststore,      \* the row ids in view order (a path is an index)
    nextRow,        \* the id the next appended row gets
    faders,         \* fader id -> fader object
    faderhandlers,  \* self._faderhandlers
    selection,      \* the selected row id, or 0
    tooltip_row,    \* self.tooltip_row: a path (index), 0 for None
    tooltip_col,    \* self.tooltip_col: a column name, "" for None
    menu,           \* self.menu: FALSE for None, TRUE once created
    Blueman,        \* self.Blueman: FALSE for None
    icon_theme,     \* the icon theme icons are looked up in
    reading,        \* the connection info the checked conversion is fed
    lastQuery,      \* history: the position of the latest tooltip query
    err,            \* TRUE once a handler raised
    call            \* the latest handler call: its arguments and effects

vars == <<rows, liststore, nextRow, faders, faderhandlers, selection,
          tooltip_row, tooltip_col, menu, Blueman, icon_theme, reading,
          lastQuery, err, call>>

uiVars == <<selection, tooltip_row, tooltip_col, menu, lastQuery>>
envVars == <<Blueman, icon_theme, reading>>

\* ------------------------------------------------------ Python values
\* dbus values handed to row_update_event, by their repr
PyValues == {"True", "False", "1", "0"}
Truthy(v) == v \notin {"False", "0", "", "None"}

\* html.escape, on a string held as a sequence of characters
EscapeChar(c) ==
    CASE c = "&" -> <<"&", "a", "m", "p", ";">>
      [] c = "<" -> <<"&", "l", "t", ";">>
      [] c = ">" -> <<"&", "g", "t", ";">>
      [] OTHER -> <<c>>

RECURSIVE html_escape(_)
html_escape(s) ==
    IF s = <<>> THEN <<>> ELSE EscapeChar(Head(s)) \o html_escape(Tail(s))

\* round(x, -1) on a scaled percentage: the nearest multiple of ten, ties
\* to the even multiple; the result is in whole percent
Round10(x) ==
    LET q == x \div Pct(10)
        r == x % Pct(10)
    IN
    IF 2 * r < Pct(10) THEN 10 * q
    ELSE IF 2 * r > Pct(10) THEN 10 * (q + 1)
    ELSE IF q % 2 = 0 THEN 10 * q ELSE 10 * (q + 1)

\* ------------------------------------------------ device properties
\* A UUID is [reserved, short]: ServiceUUID(uuid).short_uuid is the 16-bit
\* number of a UUID on the Bluetooth base UUID and None (here -1) otherwise.
short_uuid(u) == IF u.reserved THEN u.short ELSE -1
Uuid(n) == [reserved |-> TRUE, short |-> n]
CustomUuid == [reserved |-> FALSE, short |-> ObexObjpush]

\* get_minor_class / get_major_class / gatt_appearance_to_name of
\* blueman.DeviceClass, on the device classes the model uses
ClassSet == {"smartphone", "unknown", "uncategorized"}
get_minor_class(c) ==
    CASE c = "smartphone" -> "Smartphone"
      [] c = "unknown" -> "Unknown"
      [] OTHER -> "Uncategorized"
get_major_class(c) ==
    CASE c = "smartphone" -> "Phone"
      [] c = "unknown" -> "Miscellaneous"
      [] OTHER -> "Peripheral"
gatt_appearance_to_name(a) == IF a = 1 THEN "Keyboard" ELSE "Generic"

\* What a handler reads from the Device it is given: a snapshot of the
\* device's properties at the time of the call.
Props(aliases, classes, appearances, bools, uuidsets) ==
    [Alias : aliases, Class : classes, Appearance : appearances,
     Trusted : bools, Paired : bools, Connected : bools, UUIDs : uuidsets]

\* ------------------------------------------------------------ faders
\* AnimBase of blueman.gui.GtkAnimation: state runs over 0 .. FadeSteps
\* (0.0 .. 1.0); anim is <<_start, _end>> while the timeout source of a
\* started animation runs and None otherwise (nothing reads _start and
\* _end once the source is gone).
NewFader == [frozen |-> FALSE, state |-> FadeSteps, anim |-> None, handlers |-> <<>>]
Running(a) == a.anim # None

RowFader(rid) == <<"row", rid>>
CellFader(rid) == <<"cell", rid>>

Log(w, e) == [w EXCEPT !.log = Append(@, e)]

freeze(w, f) == [w EXCEPT !.faders[f].frozen = TRUE]
thaw(w, f) == [w EXCEPT !.faders[f].frozen = FALSE]
set_state(w, f, s) == [w EXCEPT !.faders[f].state = s]
get_state(w, f) == w.faders[f].state

\* GObject.connect: the new handler's id is distinct from the id of every
\* handler connected to any fader (ids are never reused while referenced)
HandlerIds(w, f) == {w.faders[f].handlers[i].id[2] : i \in DOMAIN w.faders[f].handlers}
NewHandlerId(w, f) ==
    <<f, CHOOSE n \in 1..(MaxHandlers + 1) : n \notin HandlerIds(w, f)>>
connect(w, f, kind, rid, dev) ==
    [w EXCEPT !.faders[f].handlers =
        Append(@, [id |-> NewHandlerId(w, f), kind |-> kind, row |-> rid, device |-> dev])]
\* GObject.disconnect: a handler id that is not connected to this object
\* only logs a warning
disconnect(w, f, id) ==
    [w EXCEPT !.faders[f].handlers = SelectSeq(@, LAMBDA h : h.id # id)]

\* The row's column values, as GenericList.set writes them
SetIcons(w, rid, r, l, t) ==
    [w EXCEPT !.rows[rid].rssi_pb = r, !.rows[rid].lq_pb = l, !.rows[rid].tpl_pb = t]

\* on_finished of row_setup_event (the fade-in of a new row)
on_finished_setup(w, f, h) == freeze(disconnect(w, f, h.id), f)

\* on_finished of level_setup_event, "animating up"
on_finished_up(w, f, h) == disconnect(freeze(w, f), f, h.id)

\* on_finished of level_setup_event, "animating down": h.row is row_ref
on_finished_down(w, f, h) ==
    LET w1 == freeze(disconnect(w, f, h.id), f)
    IN  IF h.row \in DOMAIN w1.rows
        THEN SetIcons(w1, h.row, None, None, None)
        ELSE w1

\* __on_fader_finished(fader, device): dict.pop raises KeyError on a
\* missing key, and the handler then ends before disconnect and freeze
on_fader_finished(w, f, h) ==
    IF h.device \in DOMAIN w.fh
    THEN LET id == w.fh[h.device]
             w1 == [w EXCEPT !.fh = [k \in (DOMAIN w.fh) \ {h.device} |-> w.fh[k]]]
         IN  freeze(disconnect(w1, f, id), f)
    ELSE [w EXCEPT !.err = TRUE]

RunHandler(w, f, h) ==
    CASE h.kind = "setup" -> on_finished_setup(w, f, h)
      [] h.kind = "up" -> on_finished_up(w, f, h)
      [] h.kind = "down" -> on_finished_down(w, f, h)
      [] OTHER -> on_fader_finished(w, f, h)

\* emit("animation-finished"): the handlers connected when the emission
\* starts run in connection order; one disconnected meanwhile is skipped
RECURSIVE EmitTo(_, _, _)
EmitTo(w, f, hs) ==
    IF hs = <<>> THEN w
    ELSE LET h == Head(hs)
             connected == \E i \in DOMAIN w.faders[f].handlers :
                              w.faders[f].handlers[i].id = h.id
         IN  EmitTo(IF connected THEN RunHandler(w, f, h) ELSE w, f, Tail(hs))

emit_finished(w, f) == EmitTo(Log(w, <<"finished", f>>), f, w.faders[f].handlers)

\* AnimBase.animate: a frozen fader reports the animation finished at once;
\* otherwise the running timeout source is replaced by a new one
animate(w, f, start, end) ==
    IF w.faders[f].frozen
    THEN emit_finished(w, f)
    ELSE Log([w EXCEPT !.faders[f].state = start, !.faders[f].anim = <<start, end>>],
             <<"animate", f, start, end>>)

\* AnimBase._do_transition, one tick of the timeout source
do_transition(w, f) ==
    LET a == w.faders[f]
        start == a.anim[1]
        end == a.anim[2]
        s == IF end < start THEN a.state - 1 ELSE a.state + 1
        done == IF end < start THEN s <= end ELSE s >= end
    IN  IF start = end
        THEN [w EXCEPT !.faders[f].anim = None]
        ELSE IF done
        THEN emit_finished([w EXCEPT !.faders[f].state = end,
                                     !.faders[f].anim = None], f)
        ELSE [w EXCEPT !.faders[f].state = s]

\* ------------------------------------------------------------- rows
\* A row as liststore.append() leaves it, holding its device
NewRow(d) ==
    [device |-> d, caption |-> None, alias |-> "", connected |-> FALSE,
     paired |-> FALSE, trusted |-> FALSE, objpush |-> FALSE,
     rssi |-> 0, lq |-> 0, tpl |-> 0,
     rssi_pb |-> None, lq_pb |-> None, tpl_pb |-> None, icon_info |-> None,
     cell_fader |-> None, row_fader |-> None,
     levels_visible |-> FALSE, initial_anim |-> FALSE]

\* The characters of the aliases the model uses
Chars(alias) ==
    CASE alias = "A<B" -> <<"A", "<", "B">>
      [] alias = "Kbd" -> <<"K", "b", "d">>
      [] OTHER -> <<>>

make_caption(name, klass, address) == <<html_escape(Chars(name)), klass, address>>

get_device_class(p) ==
    IF get_minor_class(p.Class) # "Uncategorized"
    THEN get_minor_class(p.Class)
    ELSE get_major_class(p.Class)

has_objpush(uuids) == \E u \in uuids : short_uuid(u) = ObexObjpush

get_icon_info(theme, icon_name) == <<theme, icon_name>>

\* (mutant) the Paired branch writes the trusted flag
row_update_event_WrongFlag(w, tree_iter, key, value, p) ==
    LET d == w.rows[tree_iter].device
    IN  CASE key = "Trusted" -> [w EXCEPT !.rows[tree_iter].trusted = Truthy(value)]
          [] key = "Paired" -> [w EXCEPT !.rows[tree_iter].trusted = Truthy(value)]
          [] key = "Alias" ->
               [w EXCEPT !.rows[tree_iter].caption =
                             make_caption(value, get_device_class(p), Address(d)),
                         !.rows[tree_iter].alias = value]
          [] key = "UUIDs" ->
               [w EXCEPT !.rows[tree_iter].objpush = has_objpush(p.UUIDs)]
          [] key = "Connected" ->
               [w EXCEPT !.rows[tree_iter].connected = Truthy(value)]
          [] OTHER -> w

\* row_update_event(tree_iter, key, value); p is what the row's device
\* answers when the handler reads it
row_update_event(w, tree_iter, key, value, p) ==
    LET d == w.rows[tree_iter].device
    IN  CASE key = "Trusted" ->
               IF Truthy(value)
               THEN [w EXCEPT !.rows[tree_iter].trusted = TRUE]
               ELSE [w EXCEPT !.rows[tree_iter].trusted = FALSE]
          [] key = "Paired" ->
               IF Truthy(value)
               THEN [w EXCEPT !.rows[tree_iter].paired = TRUE]
               ELSE [w EXCEPT !.rows[tree_iter].paired = FALSE]
          [] key = "Alias" ->
               [w EXCEPT !.rows[tree_iter].caption =
                             make_caption(value, get_device_class(p), Address(d)),
                         !.rows[tree_iter].alias = value]
          [] key = "UUIDs" ->
               [w EXCEPT !.rows[tree_iter].objpush = has_objpush(p.UUIDs)]
          [] key = "Connected" ->
               [w EXCEPT !.rows[tree_iter].connected = Truthy(value)]
          [] OTHER -> w

\* The description row_setup_event puts in the caption
Description(p) ==
    LET klass == get_minor_class(p.Class)
    IN  IF klass # "Uncategorized" /\ klass # "Unknown" THEN klass
        ELSE IF klass = "Unknown" /\ p.Appearance # 0
        THEN gatt_appearance_to_name(p.Appearance)
        ELSE get_major_class(p.Class)

\* The first-render part of row_setup_event
InitialAnim(w, tree_iter, p) ==
    LET cf == CellFader(tree_iter)
        rf == RowFader(tree_iter)
        w1 == [w EXCEPT !.faders = [f \in (DOMAIN w.faders) \cup {cf, rf} |->
                                       IF f \in {cf, rf} THEN NewFader ELSE w.faders[f]],
                        !.rows[tree_iter].row_fader = rf,
                        !.rows[tree_iter].cell_fader = cf,
                        !.rows[tree_iter].levels_visible = FALSE,
                        !.rows[tree_iter].objpush = has_objpush(p.UUIDs)]
        w2 == freeze(w1, cf)
        w3 == connect(w2, rf, "setup", tree_iter, NoDevice)
        w4 == animate(set_state(w3, rf, 0), rf, 0, FadeSteps)
    IN  [w4 EXCEPT !.rows[tree_iter].initial_anim = TRUE]

\* (mutant) the first-render part run on every call
row_setup_event_Always(w, tree_iter, p, theme) ==
    LET d == w.rows[tree_iter].device
        w1 == InitialAnim(w, tree_iter, p)
        w2 == [w1 EXCEPT !.rows[tree_iter].caption =
                             make_caption(p.Alias, Description(p), Address(d)),
                         !.rows[tree_iter].icon_info = get_icon_info(theme, Icon(d)),
                         !.rows[tree_iter].alias = p.Alias]
        w3 == row_update_event(w2, tree_iter, "Trusted", p.Trusted, p)
        w4 == row_update_event(w3, tree_iter, "Paired", p.Paired, p)
    IN  row_update_event(w4, tree_iter, "Connected", p.Connected, p)

row_setup_event(w, tree_iter, p, theme) ==
    LET d == w.rows[tree_iter].device
        w1 == IF ~w.rows[tree_iter].initial_anim
              THEN InitialAnim(w, tree_iter, p)
              ELSE w
        w2 == [w1 EXCEPT !.rows[tree_iter].caption =
                             make_caption(p.Alias, Description(p), Address(d)),
                         !.rows[tree_iter].icon_info = get_icon_info(theme, Icon(d)),
                         !.rows[tree_iter].alias = p.Alias]
        w3 == row_update_event(w2, tree_iter, "Trusted", p.Trusted, p)
        w4 == row_update_event(w3, tree_iter, "Paired", p.Paired, p)
    IN  row_update_event(w4, tree_iter, "Connected", p.Connected, p)

find_device(rs, d) == CHOOSE rid \in DOMAIN rs : rs[rid].device = d
HasRow(rs, d) == \E rid \in DOMAIN rs : rs[rid].device = d

\* DeviceList.add_device: append a row for the device and set it up
add_device(w, rid, d, p, theme) ==
    row_setup_event([w EXCEPT !.rows = [r \in (DOMAIN w.rows) \cup {rid} |->
                                           IF r = rid THEN NewRow(d) ELSE w.rows[r]]],
                    rid, p, theme)

\* DeviceList.device_remove_event: delete the device's row
super_device_remove_event(w, rid) ==
    [w EXCEPT !.rows = [r \in (DOMAIN w.rows) \ {rid} |-> w.rows[r]]]

device_remove_event(w, d) ==
    LET tree_iter == find_device(w.rows, d)
        row_fader == w.rows[tree_iter].row_fader
        w1 == super_device_remove_event(w, tree_iter)
        w2 == connect(w1, row_fader, "remove", tree_iter, d)
        id == w2.faders[row_fader].handlers[Len(w2.faders[row_fader].handlers)].id
        w3 == [w2 EXCEPT !.fh = [k \in (DOMAIN w2.fh) \cup {d} |->
                                    IF k = d THEN id ELSE w2.fh[k]]]
        w4 == Log(thaw(w3, row_fader), <<"device-selected", None>>)
    IN  animate(w4, row_fader, get_state(w4, row_fader), 0)

\* ------------------------------------------------------------ levels
\* conn_info: cinfo is None (present = FALSE) or an object with a failed
\* flag and three readings, each <<value>> or <<>> for ConnInfoReadError
NoCInfo == [present |-> FALSE, failed |-> FALSE, rssi |-> <<>>, lq |-> <<>>, tpl |-> <<>>]
CInfo(failed, rssi, lq, tpl) ==
    [present |-> TRUE, failed |-> failed, rssi |-> rssi, lq |-> lq, tpl |-> tpl]
Raw(r) == IF r = <<>> THEN 0 ELSE r[1]

\* (mutant) the floor of 10 left out
AtLeast10_NoFloor(x) == x

AtLeast10(x) == IF x < Pct(10) THEN Pct(10) ELSE x

\* (mutant) the halving of rssi / 127 left out
Percentages_NoHalf(cinfo) ==
    IF cinfo.failed
    THEN <<Pct(100), Pct(100), Pct(100)>>
    ELSE <<AtLeast10(Pct(50) + Raw(cinfo.rssi) * 100 * LqMax),
           AtLeast10(Raw(cinfo.lq) * 100 * RssiMax),
           AtLeast10(Pct(50) + Raw(cinfo.tpl) * 100 * LqMax)>>

\* <<rssi_perc, lq_perc, tpl_perc>>, scaled by PercScale
Percentages(cinfo) ==
    IF cinfo.failed
    THEN <<Pct(100), Pct(100), Pct(100)>>
    ELSE LET rssi == Raw(cinfo.rssi)
             lq == Raw(cinfo.lq)
             tpl == Raw(cinfo.tpl)
             rssi_perc == Pct(50) + rssi * 50 * LqMax
             tpl_perc == Pct(50) + tpl * 50 * LqMax
             lq_perc == lq * 100 * RssiMax
         IN  <<AtLeast10(rssi_perc), AtLeast10(lq_perc), AtLeast10(tpl_perc)>>

\* GdkPixbuf.Pixbuf.new_from_file("blueman-<metric>-<bucket>.png")
LevelIcon(metric, perc) == <<metric, Round10(perc)>>
\* (mutant) the percentages compared unrounded
BucketChanged_Exact(stored, perc) == stored # perc
BucketChanged(stored, perc) == Round10(stored) # Round10(perc)

\* (mutant) levels_visible not set when the levels fade in
AnimateUp_NoFlag(w, tree_iter) ==
    LET fader == w.rows[tree_iter].cell_fader
        w2 == animate(set_state(thaw(w, fader), fader, 0), fader, 0, FadeSteps)
    IN  connect(w2, fader, "up", tree_iter, NoDevice)

AnimateUp(w, tree_iter) ==
    LET fader == w.rows[tree_iter].cell_fader
        w1 == [w EXCEPT !.rows[tree_iter].levels_visible = TRUE]
        w2 == animate(set_state(thaw(w1, fader), fader, 0), fader, 0, FadeSteps)
    IN  connect(w2, fader, "up", tree_iter, NoDevice)

AnimateDown(w, tree_iter) ==
    LET fader == w.rows[tree_iter].cell_fader
        w1 == [w EXCEPT !.rows[tree_iter].levels_visible = FALSE,
                        !.rows[tree_iter].rssi = Pct(-1),
                        !.rows[tree_iter].lq = Pct(-1),
                        !.rows[tree_iter].tpl = Pct(-1)]
        w2 == set_state(thaw(w1, fader), fader, FadeSteps)
        w3 == animate(w2, fader, get_state(w2, fader), 0)
    IN  connect(w3, fader, "down", tree_iter, NoDevice)

\* to_store and the final self.set(tree_iter, **to_store)
StoreLevels(w, tree_iter, row, perc) ==
    LET r == BucketChanged(row.rssi, perc[1])
        l == BucketChanged(row.lq, perc[2])
        t == BucketChanged(row.tpl, perc[3])
        to_store == (IF r THEN {"rssi", "rssi_pb"} ELSE {})
                    \cup (IF l THEN {"lq", "lq_pb"} ELSE {})
                    \cup (IF t THEN {"tpl", "tpl_pb"} ELSE {})
        w1 == [w EXCEPT
                 !.rows[tree_iter].rssi = IF r THEN perc[1] ELSE @,
                 !.rows[tree_iter].rssi_pb = IF r THEN LevelIcon("rssi", perc[1]) ELSE @,
                 !.rows[tree_iter].lq = IF l THEN perc[2] ELSE @,
                 !.rows[tree_iter].lq_pb = IF l THEN LevelIcon("lq", perc[2]) ELSE @,
                 !.rows[tree_iter].tpl = IF t THEN perc[3] ELSE @,
                 !.rows[tree_iter].tpl_pb = IF t THEN LevelIcon("tpl", perc[3]) ELSE @]
    IN  IF to_store # {} THEN Log(w1, <<"set", tree_iter, to_store>>) ELSE w

\* level_setup_event(row_ref, device, cinfo)
level_setup_event(w, row_ref, cinfo) ==
    IF row_ref \notin DOMAIN w.rows
    THEN w
    ELSE LET row == w.rows[row_ref]
         IN  IF cinfo.present
             THEN StoreLevels(IF ~row.levels_visible THEN AnimateUp(w, row_ref) ELSE w,
                              row_ref, row, Percentages(cinfo))
             ELSE IF row.levels_visible THEN AnimateDown(w, row_ref) ELSE w

\* on_icon_theme_changed: row_setup_event for every row of the liststore,
\* pf[rid] being what the device of row rid answers
RECURSIVE on_icon_theme_changed(_, _, _, _)
on_icon_theme_changed(w, ids, pf, theme) ==
    IF ids = <<>> THEN w
    ELSE on_icon_theme_changed(row_setup_event(w, Head(ids), pf[Head(ids)], theme),
                               Tail(ids), pf, theme)

\* ----------------------------------------------------------- actions
World == [rows |-> rows, faders |-> faders, fh |-> faderhandlers, err |-> err, log |-> <<>>]

\* A fader nothing refers to any more (its row is gone, no timeout source
\* runs it and no handler is connected to it) is collected
Live(w) ==
    {f \in DOMAIN w.faders :
        f[2] \in DOMAIN w.rows \/ Running(w.faders[f]) \/ w.faders[f].handlers # <<>>}

Commit(w, c) ==
    /\ rows' = w.rows
    /\ faders' = [f \in Live(w) |-> w.faders[f]]
    /\ faderhandlers' = w.fh
    /\ err' = w.err
    /\ call' = [c EXCEPT !.log = w.log]

Without(seq, x) == SelectSeq(seq, LAMBDA y : y # x)
RowRefs == 1..(nextRow - 1)

\* device_add_event(device), for a device that has no row yet
DeviceAddEvent(d, p) ==
    /\ ~HasRow(rows, d)
    /\ nextRow <= MaxRows
    /\ liststore' = Append(liststore, nextRow)
    /\ nextRow' = nextRow + 1
    /\ Commit(add_device(World, nextRow, d, p, icon_theme),
              [op |-> "device_add_event", row |-> nextRow, log |-> <<>>])
    /\ UNCHANGED <<uiVars, envVars>>

\* device_remove_event(device), for a device that has a row
DeviceRemoveEvent(d) ==
    /\ HasRow(rows, d)
    /\ LET rid == find_device(rows, d)
       IN  /\ liststore' = Without(liststore, rid)
           /\ selection' = IF selection = rid THEN 0 ELSE selection
           /\ Commit(device_remove_event(World, d),
                     [op |-> "device_remove_event", row |-> rid, log |-> <<>>])
    /\ UNCHANGED <<nextRow, tooltip_row, tooltip_col, menu, lastQuery, envVars>>

\* One tick of a running animation's timeout source
AnimationTick(f) ==
    /\ f \in DOMAIN faders
    /\ Running(faders[f])
    /\ Commit(do_transition(World, f), [op |-> "do_transition", row |-> f[2], log |-> <<>>])
    /\ UNCHANGED <<liststore, nextRow, uiVars, envVars>>

\* level_setup_event(row_ref, device, cinfo); row_ref refers to a row that
\* was in the list when the reference was taken
WouldConnect(rid, cinfo) ==
    rid \in DOMAIN rows /\ rows[rid].levels_visible # cinfo.present
LevelSetupEvent(row_ref, cinfo) ==
    /\ row_ref \in RowRefs
    /\ WouldConnect(row_ref, cinfo) =>
           Len(faders[rows[row_ref].cell_fader].handlers) < MaxHandlers
    /\ Commit(level_setup_event(World, row_ref, cinfo),
              [op |-> "level_setup_event", row |-> row_ref, log |-> <<>>])
    /\ UNCHANGED <<liststore, nextRow, uiVars, envVars>>

\* on_icon_theme_changed(icon_theme), after the theme changed to `theme`
OnIconThemeChanged(theme, pf) ==
    /\ icon_theme' = theme
    /\ Commit(on_icon_theme_changed(World, liststore, pf, theme),
              [op |-> "on_icon_theme_changed", row |-> 0, log |-> <<>>])
    /\ UNCHANGED <<liststore, nextRow, uiVars, Blueman, reading>>

\* row_update_event(tree_iter, key, value) on a row of the list
RowUpdateEvent(tree_iter, key, value, p) ==
    /\ tree_iter \in DOMAIN rows
    /\ Commit(row_update_event(World, tree_iter, key, value, p),
              [op |-> "row_update_event", row |-> tree_iter, key |-> key, log |-> <<>>])
    /\ UNCHANGED <<liststore, nextRow, uiVars, envVars>>

InitCommon ==
    /\ rows = << >>
    /\ liststore = << >>
    /\ nextRow = 1
    /\ faders = << >>
    /\ faderhandlers = << >>
    /\ selection = 0
    /\ tooltip_row = 0
    /\ tooltip_col = ""
    /\ menu = FALSE
    /\ icon_theme = "light"
    /\ lastQuery = <<0, "">>
    /\ err = FALSE
    /\ call = [op |-> "init", row |-> 0, log |-> <<>>]

\* ------------------------------------------- specification: levels
DefaultProps ==
    [Alias |-> "Kbd", Class |-> "smartphone", Appearance |-> 0, Trusted |-> "False",
     Paired |-> "False", Connected |-> "True", UUIDs |-> {}]

LevelCInfos ==
    {NoCInfo,
     CInfo(TRUE, <<0>>, <<0>>, <<0>>),
     CInfo(FALSE, <<RssiMax - 1>>, <<LqMax - 5>>, <<>>)}

Init ==
    /\ InitCommon
    /\ Blueman = TRUE
    /\ reading = NoCInfo

Next ==
    \/ \E d \in Devices : DeviceAddEvent(d, DefaultProps)
    \/ \E d \in Devices : DeviceRemoveEvent(d)
    \/ \E r \in 1..MaxRows : AnimationTick(CellFader(r))
    \/ \E r \in 1..MaxRows, c \in LevelCInfos : LevelSetupEvent(r, c)

Spec == Init /\ [][Next]_vars

\* -------------------------------------------------- claims: levels
Metrics == {"rssi", "lq", "tpl"}
Stored(row, m) == CASE m = "rssi" -> row.rssi [] m = "lq" -> row.lq [] OTHER -> row.tpl
StoredIcon(row, m) ==
    CASE m = "rssi" -> row.rssi_pb [] m = "lq" -> row.lq_pb [] OTHER -> row.tpl_pb
PercOf(perc, m) == CASE m = "rssi" -> perc[1] [] m = "lq" -> perc[2] [] OTHER -> perc[3]
Logged(e) == \E i \in DOMAIN call.log : call.log[i] = e
LoggedNext(e) == \E i \in DOMAIN call'.log : call'.log[i] = e

\* C1: in every reachable state, for every row whose levels are shown and
\* for each metric, the stored icon is the icon of the nearest-ten bucket
\* of the stored percentage (a shown percentage is never left without icon).
C1_IconMatchesPercentage ==
    \A rid \in DOMAIN rows : \A m \in Metrics :
        rows[rid].levels_visible =>
            StoredIcon(rows[rid], m) = <<m, Round10(Stored(rows[rid], m))>>

\* C2: level_setup_event with connection info on a valid row overwrites a
\* metric's percentage and icon iff the new percentage's nearest-ten bucket
\* differs from the stored one's, leaves the metric alone otherwise, and
\* calls set() with exactly the changed metrics' fields (not at all when
\* no bucket changed).
C2_Effect(r, c) ==
    LET perc == Percentages(c)
        changed == {m \in Metrics :
                       Round10(Stored(rows[r], m)) # Round10(PercOf(perc, m))}
        fields == UNION {{m, IF m = "rssi" THEN "rssi_pb"
                             ELSE IF m = "lq" THEN "lq_pb" ELSE "tpl_pb"} : m \in changed}
    IN  /\ \A m \in Metrics :
             IF m \in changed
             THEN /\ Stored(rows'[r], m) = PercOf(perc, m)
                  /\ StoredIcon(rows'[r], m) = <<m, Round10(PercOf(perc, m))>>
             ELSE /\ Stored(rows'[r], m) = Stored(rows[r], m)
                  /\ StoredIcon(rows'[r], m) = StoredIcon(rows[r], m)
        /\ \A i \in DOMAIN call'.log :
             call'.log[i][1] = "set" => changed # {} /\ call'.log[i] = <<"set", r, fields>>
        /\ changed # {} => LoggedNext(<<"set", r, fields>>)

C2_ReloadIffBucketChanged ==
    [][\A r \in 1..MaxRows : \A c \in LevelCInfos :
          (/\ call'.op = "level_setup_event" /\ call'.row = r
           /\ c.present /\ r \in DOMAIN rows
           /\ LevelSetupEvent(r, c)) => C2_Effect(r, c)]_vars

\* C2 witness: a call that rewrote transmit power alone, the other two
\* metrics staying in their buckets
C2_Witness ==
    /\ call.op = "level_setup_event"
    /\ call.row \in DOMAIN rows
    /\ Logged(<<"set", call.row, {"tpl", "tpl_pb"}>>)
    /\ rows[call.row].rssi = Pct(100)
    /\ rows[call.row].tpl = Pct(50)

\* C3 as stated: every stored metric of every row lies in 0 .. 100.
C3_Original ==
    \A rid \in DOMAIN rows : \A m \in Metrics :
        Stored(rows[rid], m) >= 0 /\ Stored(rows[rid], m) <= Pct(100)

\* C3 amended: every stored metric lies in 0 .. 100, except that the
\* metrics of a row whose levels are hidden may hold -1.
C3_RangeOrHidden ==
    \A rid \in DOMAIN rows : \A m \in Metrics :
        \/ Stored(rows[rid], m) >= 0 /\ Stored(rows[rid], m) <= Pct(100)
        \/ Stored(rows[rid], m) = Pct(-1) /\ ~rows[rid].levels_visible

\* C3 witness: a row shown at full signal strength, and a hidden row
C3_Witness ==
    /\ \E rid \in DOMAIN rows : rows[rid].levels_visible /\ rows[rid].rssi = Pct(100)
    /\ \E rid \in DOMAIN rows : ~rows[rid].levels_visible /\ rows[rid].rssi = Pct(-1)

\* C8: a level_setup_event on an invalid row reference changes nothing; on
\* a valid row it leaves levels_visible equal to "the call carried
\* connection info", starts the cell fade-up exactly on hidden -> shown,
\* starts the cell fade-down and resets the metrics exactly on shown ->
\* hidden, changes nothing on hidden -> hidden and never touches another
\* row; no other handler changes levels_visible of a row.
C8_Effect(r, c) ==
    IF r \notin DOMAIN rows
    THEN rows' = rows /\ faders' = faders /\ call'.log = <<>>
    ELSE LET vis == rows[r].levels_visible
             cf == rows[r].cell_fader
             down == \E s \in 0..FadeSteps : LoggedNext(<<"animate", cf, s, 0>>)
         IN  /\ rows'[r].levels_visible = c.present
             /\ LoggedNext(<<"animate", cf, 0, FadeSteps>>) <=> (~vis /\ c.present)
             /\ down <=> (vis /\ ~c.present)
             /\ c.present => \A m \in Metrics : Stored(rows'[r], m) # Pct(-1)
             /\ (vis /\ ~c.present) => \A m \in Metrics : Stored(rows'[r], m) = Pct(-1)
             /\ (\E m \in Metrics : Stored(rows'[r], m) # Stored(rows[r], m)
                                    /\ Stored(rows'[r], m) = Pct(-1)) <=> (vis /\ ~c.present)
             /\ (~vis /\ ~c.present) =>
                    rows' = rows /\ faders' = faders /\ call'.log = <<>>
             /\ \A r2 \in DOMAIN rows : r2 # r => rows'[r2] = rows[r2]

C8_LevelsVisibleFollowsCalls ==
    [][/\ \A r \in 1..MaxRows : \A c \in LevelCInfos :
            (/\ call'.op = "level_setup_event" /\ call'.row = r
             /\ LevelSetupEvent(r, c)) => C8_Effect(r, c)
       /\ call'.op # "level_setup_event" =>
            \A r \in DOMAIN rows \cap DOMAIN rows' :
                rows'[r].levels_visible = rows[r].levels_visible]_vars

\* C8 witness: a call without connection info has just hidden shown levels
C8_Witness ==
    /\ call.op = "level_setup_event"
    /\ call.row \in DOMAIN rows
    /\ Logged(<<"animate", CellFader(call.row), FadeSteps, 0>>)
    /\ ~rows[call.row].levels_visible
    /\ rows[call.row].lq = Pct(-1)

\* -------------------------------------- specification: percentages
\* The conversion of level_setup_event over the whole range of readings:
\* the connection info is drawn at the start and shown on fresh rows.
OneReading ==
    {CInfo(FALSE, <<v>>, <<>>, <<>>) : v \in (-RssiMax)..RssiMax}
    \cup {CInfo(FALSE, <<>>, <<v>>, <<>>) : v \in 0..LqMax}
    \cup {CInfo(FALSE, <<>>, <<>>, <<v>>) : v \in (-RssiMax)..RssiMax}
FullReadings ==
    OneReading \cup {CInfo(TRUE, <<0>>, <<0>>, <<0>>),
                     CInfo(FALSE, <<RssiMax>>, <<LqMax>>, <<RssiMax>>),
                     CInfo(FALSE, <<-RssiMax>>, <<0>>, <<-RssiMax>>)}

InitPerc ==
    /\ InitCommon
    /\ Blueman = TRUE
    /\ reading \in FullReadings

NextPerc ==
    \/ \E d \in Devices : DeviceAddEvent(d, DefaultProps)
    \/ \E r \in 1..MaxRows : LevelSetupEvent(r, reading)

SpecPerc == InitPerc /\ [][NextPerc]_vars

\* C7: the percentages level_setup_event stores on first showing a row are
\* 100 each for a failed connection info and otherwise
\* rssi% = 50 + rssi*100/254, tpl% = 50 + tpl*100/254, lq% = lq*100/255,
\* each raised to 10 when below, a reading that failed counting as 0 (50,
\* 50 and 10); every one lies between 10 and 100.
C7_Signed(stored, rd) ==
    LET n == 50 * 254 + Raw(rd) * 100
    IN  /\ stored * 254 = PercScale * (IF n < 10 * 254 THEN 10 * 254 ELSE n)
        /\ rd = <<>> => stored = Pct(50)
C7_Unsigned(stored, rd) ==
    LET n == Raw(rd) * 100
    IN  /\ stored * 255 = PercScale * (IF n < 10 * 255 THEN 10 * 255 ELSE n)
        /\ rd = <<>> => stored = Pct(10)
C7_Percentages ==
    \A rid \in DOMAIN rows :
        rows[rid].levels_visible =>
            /\ \A m \in Metrics : Stored(rows[rid], m) >= Pct(10)
                                  /\ Stored(rows[rid], m) <= Pct(100)
            /\ IF reading.failed
               THEN \A m \in Metrics : Stored(rows[rid], m) = Pct(100)
               ELSE /\ C7_Signed(rows[rid].rssi, reading.rssi)
                    /\ C7_Signed(rows[rid].tpl, reading.tpl)
                    /\ C7_Unsigned(rows[rid].lq, reading.lq)

\* C7 witness: the weakest signal strength shown, raised to 10, beside a
\* failed link-quality reading
C7_Witness ==
    \E rid \in DOMAIN rows :
        /\ rows[rid].levels_visible
        /\ reading.rssi = <<-RssiMax>>
        /\ reading.lq = <<>>
        /\ rows[rid].rssi = Pct(10)
        /\ rows[rid].lq = Pct(10)

\* --------------------------------------- specification: row lifecycle
\* Rows are added, set up again on a theme change, have their levels shown
\* and are removed; the row faders (fade-in, fade-out) run.
OtherProps ==
    [Alias |-> "A<B", Class |-> "unknown", Appearance |-> 1, Trusted |-> "True",
     Paired |-> "True", Connected |-> "False", UUIDs |-> {Uuid(ObexObjpush)}]
RowProps == {DefaultProps, OtherProps}
ShownCInfo == CInfo(TRUE, <<0>>, <<0>>, <<0>>)

InitRows ==
    /\ InitCommon
    /\ Blueman = TRUE
    /\ reading = NoCInfo

NextRows ==
    \/ \E d \in Devices, p \in RowProps : DeviceAddEvent(d, p)
    \/ \E d \in Devices : DeviceRemoveEvent(d)
    \/ \E r \in 1..MaxRows : AnimationTick(RowFader(r))
    \/ \E th \in Themes, pf \in [DOMAIN rows -> RowProps] : OnIconThemeChanged(th, pf)
    \/ \E r \in 1..MaxRows : LevelSetupEvent(r, ShownCInfo)

SpecRows == InitRows /\ [][NextRows]_vars

\* C4: when the fade-out of a removed row's fader finishes, the handler
\* device_remove_event connected for it is disconnected, the fader is
\* frozen and no handler is left registered for the removed device: the
\* fader holds no handler any more and _faderhandlers no entry whose
\* handler belongs to it.
C4_FadeOutFinishDisconnects ==
    [][\A r \in 1..MaxRows :
          (/\ call'.op = "do_transition"
           /\ r \notin DOMAIN rows
           /\ LoggedNext(<<"finished", RowFader(r)>>)) =>
              /\ RowFader(r) \in DOMAIN faders' =>
                     /\ faders'[RowFader(r)].frozen
                     /\ faders'[RowFader(r)].handlers = <<>>
              /\ \A d \in DOMAIN faderhandlers' : faderhandlers'[d][1] # RowFader(r)]_vars

\* C6: device_add_event's first row_setup_event creates the two faders,
\* freezes the cell fader, starts the one fade-in 0.0 -> 1.0 of the row
\* fader and sets initial_anim; every row of the list has initial_anim set,
\* and a later row_setup_event (on_icon_theme_changed) starts no animation,
\* leaves every fader and the row's row_fader, cell_fader, levels_visible,
\* initial_anim, objpush and levels as they are and writes caption,
\* icon_info, alias, trusted, paired and connected from the device.
C6_FirstSetup(rid) ==
    /\ rid \in DOMAIN rows'
    /\ rid \notin DOMAIN rows
    /\ rows'[rid].initial_anim
    /\ ~rows'[rid].levels_visible
    /\ rows'[rid].row_fader = RowFader(rid)
    /\ rows'[rid].cell_fader = CellFader(rid)
    /\ {RowFader(rid), CellFader(rid)} \cap DOMAIN faders = {}
    /\ faders'[CellFader(rid)].frozen
    /\ faders'[CellFader(rid)].anim = None
    /\ ~faders'[RowFader(rid)].frozen
    /\ faders'[RowFader(rid)].state = 0
    /\ faders'[RowFader(rid)].anim = <<0, FadeSteps>>
    /\ call'.log = << <<"animate", RowFader(rid), 0, FadeSteps>> >>
    /\ \A f \in DOMAIN faders : faders'[f] = faders[f]

C6_LaterSetup(th, pf) ==
    /\ faders' = faders
    /\ call'.log = <<>>
    /\ DOMAIN rows' = DOMAIN rows
    /\ \A rid \in DOMAIN rows :
         rows'[rid] = [rows[rid] EXCEPT
                          !.caption = <<html_escape(Chars(pf[rid].Alias)),
                                        Description(pf[rid]), Address(rows[rid].device)>>,
                          !.icon_info = <<th, Icon(rows[rid].device)>>,
                          !.alias = pf[rid].Alias,
                          !.trusted = (pf[rid].Trusted = "True"),
                          !.paired = (pf[rid].Paired = "True"),
                          !.connected = (pf[rid].Connected = "True")]

C6_FadeInStartedOnce ==
    [][/\ call'.op = "device_add_event" => C6_FirstSetup(call'.row)
       /\ \A rid \in DOMAIN rows' : rows'[rid].initial_anim
       /\ \A th \in Themes : \A pf \in [DOMAIN rows -> RowProps] :
            (call'.op = "on_icon_theme_changed" /\ OnIconThemeChanged(th, pf))
                => C6_LaterSetup(th, pf)]_vars

\* C6 witness: a theme change has set up again a row whose levels are
\* shown and whose fade-in is still running, with other device properties
C6_Witness ==
    /\ call.op = "on_icon_theme_changed"
    /\ icon_theme = "dark"
    /\ \E rid \in DOMAIN rows :
         /\ rows[rid].levels_visible
         /\ rows[rid].initial_anim
         /\ rows[rid].icon_info = <<"dark", Icon(rows[rid].device)>>
         /\ rows[rid].alias = "A<B"
         /\ ~rows[rid].objpush
         /\ faders[RowFader(rid)].anim = <<0, FadeSteps>>
         /\ faders[RowFader(rid)].state = 1

\* -------------------------------------- specification: row updates
\* The devices get rows and their properties change.
Keys == {"Trusted", "Paired", "Connected", "Alias", "UUIDs", "Blocked"}
Aliases == {"A<B", "Kbd"}
ValuesOf(key) ==
    IF key \in {"Trusted", "Paired", "Connected"} THEN PyValues
    ELSE IF key = "Alias" THEN Aliases
    ELSE {"True"}
\* What device d answers when a handler reads it: its class does not change,
\* its UUIDs do
ClassOf(d) == IF d = "devA" THEN "smartphone" ELSE "uncategorized"
UpdateProps(d) ==
    {[DefaultProps EXCEPT !.Class = ClassOf(d), !.UUIDs = u] :
        u \in {{}, {CustomUuid, Uuid(ObexObjpush + 6)},
                 {Uuid(ObexObjpush + 6), Uuid(ObexObjpush)}}}
PropsFor(key, d) ==
    IF key = "UUIDs" THEN UpdateProps(d)
    ELSE {[DefaultProps EXCEPT !.Class = ClassOf(d)]}

NextUpdate ==
    \/ \E d \in Devices : DeviceAddEvent(d, [DefaultProps EXCEPT !.Class = ClassOf(d)])
    \/ \E r \in DOMAIN rows, key \in Keys :
           \E value \in ValuesOf(key), p \in PropsFor(key, rows[r].device) :
               RowUpdateEvent(r, key, value, p)

SpecUpdate == InitRows /\ [][NextUpdate]_vars

\* C5: row_update_event writes, of all rows and faders, only: for key
\* Trusted the row's trusted flag (the truth value of the new value), for
\* Paired its paired flag, for Connected its connected flag, for Alias its
\* caption and alias, for UUIDs its objpush flag (whether the device
\* advertises OBEX Object Push); any other key writes nothing.
C5_Effect(r, key, value, p) ==
    LET truth == value \in {"True", "1"}
    IN  /\ faders' = faders
        /\ faderhandlers' = faderhandlers
        /\ liststore' = liststore
        /\ rows' = CASE key = "Trusted" -> [rows EXCEPT ![r].trusted = truth]
                     [] key = "Paired" -> [rows EXCEPT ![r].paired = truth]
                     [] key = "Connected" -> [rows EXCEPT ![r].connected = truth]
                     [] key = "Alias" -> [rows EXCEPT ![r].caption = rows'[r].caption,
                                                     ![r].alias = value]
                     [] key = "UUIDs" ->
                          [rows EXCEPT ![r].objpush = (Uuid(ObexObjpush) \in p.UUIDs)]
                     [] OTHER -> rows

C5_UpdatesOnlyItsField ==
    [][call'.op = "row_update_event" =>
          \A value \in ValuesOf(call'.key) :
          \A p \in PropsFor(call'.key, rows[call'.row].device) :
              RowUpdateEvent(call'.row, call'.key, value, p)
                  => C5_Effect(call'.row, call'.key, value, p)]_vars

\* C5 witness: with two rows in the list, a UUIDs update has set objpush on
\* a row that an earlier update had made trusted and renamed
C5_Witness ==
    /\ call.op = "row_update_event"
    /\ call.key = "UUIDs"
    /\ Len(liststore) = 2
    /\ rows[call.row].objpush
    /\ rows[call.row].trusted
    /\ rows[call.row].alias = "A<B"
    /\ \E r \in DOMAIN rows : r # call.row /\ ~rows[r].objpush /\ rows[r].paired

\* ------------------------------------------ specification: clicks
\* ManagerDeviceMenu.show_generic_connect_calc: some UUID of the device is
\* one of the audio, hands-free, headset or HID services
GenericConnectIds == {4360, 4362, 4363, 4382, 4383, 4388, 6162}
show_generic_connect_calc(uuids) == \E u \in uuids : short_uuid(u) \in GenericConnectIds

\* get_path_at_pos(x, y): the position in the list of the row under the
\* pointer; 0 stands for None (no row there)
get_path_at_pos(pos) == IF pos \in 1..Len(liststore) THEN pos ELSE 0

EventTypes == {"BUTTON_PRESS", "_2BUTTON_PRESS", "BUTTON_RELEASE"}
Buttons == 1..3

\* (mutant) generic_connect called with the row's connected flag itself
on_event_clicked_NoNegate(type, button, pos, p) ==
    LET path == get_path_at_pos(pos)
        nothing == [ret |-> FALSE, menu |-> menu, log |-> <<>>]
    IN  IF type \notin {"_2BUTTON_PRESS", "BUTTON_PRESS"} THEN nothing
        ELSE IF path = 0 THEN nothing
        ELSE IF ~Blueman THEN nothing
        ELSE LET row == rows[liststore[path]]
                 l1 == IF type = "_2BUTTON_PRESS" /\ button = 1
                          /\ show_generic_connect_calc(p.UUIDs)
                       THEN << <<"generic_connect", row.device, row.connected>> >>
                       ELSE <<>>
                 l2 == IF type = "BUTTON_PRESS" /\ button = 3
                       THEN << <<"popup_at_pointer">> >>
                       ELSE <<>>
             IN  [ret |-> FALSE, menu |-> TRUE, log |-> l1 \o l2]

\* on_event_clicked(_widget, event): what it returns, the menu it leaves
\* and the calls it makes on the menu; p is what the row's device answers
on_event_clicked(type, button, pos, p) ==
    LET path == get_path_at_pos(pos)
        nothing == [ret |-> FALSE, menu |-> menu, log |-> <<>>]
    IN  IF type \notin {"_2BUTTON_PRESS", "BUTTON_PRESS"} THEN nothing
        ELSE IF path = 0 THEN nothing
        ELSE IF ~Blueman THEN nothing
        ELSE LET row == rows[liststore[path]]
                 l1 == IF type = "_2BUTTON_PRESS" /\ button = 1
                          /\ show_generic_connect_calc(p.UUIDs)
                       THEN << <<"generic_connect", row.device, ~row.connected>> >>
                       ELSE <<>>
                 l2 == IF type = "BUTTON_PRESS" /\ button = 3
                       THEN << <<"popup_at_pointer">> >>
                       ELSE <<>>
             IN  [ret |-> FALSE, menu |-> TRUE, log |-> l1 \o l2]

OnEventClicked(type, button, pos, p) ==
    /\ LET r == on_event_clicked(type, button, pos, p)
       IN  /\ menu' = r.menu
           /\ call' = [op |-> "on_event_clicked", row |-> pos, ret |-> r.ret, log |-> r.log]
    /\ UNCHANGED <<rows, liststore, nextRow, faders, faderhandlers, selection,
                   tooltip_row, tooltip_col, lastQuery, err, envVars>>

\* What device d answers: devA is a headset that advertises the audio sink
\* service, devB advertises a vendor service only
UuidsOf(d) == IF d = "devA" THEN {Uuid(ObexObjpush + 6)} ELSE {CustomUuid}
FlagProps(d) ==
    {[DefaultProps EXCEPT !.Trusted = f[1], !.Paired = f[2], !.Connected = f[3],
                          !.UUIDs = UuidsOf(d)] :
        f \in {<<"False", "False", "False">>, <<"True", "True", "True">>,
               <<"False", "True", "False">>, <<"True", "False", "True">>}}
DeviceOf(pos) == IF pos \in 1..Len(liststore) THEN rows[liststore[pos]].device ELSE NoDevice

InitClick ==
    /\ InitCommon
    /\ Blueman \in BOOLEAN
    /\ reading = NoCInfo

NextClick ==
    \/ \E d \in Devices : \E p \in FlagProps(d) : DeviceAddEvent(d, p)
    \/ \E type \in EventTypes, button \in Buttons, pos \in 0..MaxRows :
           \E p \in FlagProps(DeviceOf(pos)) : OnEventClicked(type, button, pos, p)

SpecClick == InitClick /\ [][NextClick]_vars

\* C9: on_event_clicked returns False and changes no row, fader or list in
\* every case; a double-click with button 1 on a row, with a Blueman
\* instance set and UUIDs that allow a generic connect, calls
\* generic_connect for the row's device with connect = not connected; a
\* single press with button 3 on a row (Blueman set) pops up the menu; a
\* button release, a click outside every row and a click without a Blueman
\* instance call nothing and leave the menu as it was.
C9_Effect(type, button, pos, p) ==
    LET onRow == pos \in 1..Len(liststore)
        row == rows[liststore[pos]]
    IN  /\ call'.ret = FALSE
        /\ rows' = rows /\ faders' = faders /\ liststore' = liststore
        /\ faderhandlers' = faderhandlers
        /\ (type = "_2BUTTON_PRESS" /\ button = 1 /\ onRow /\ Blueman
               /\ show_generic_connect_calc(p.UUIDs))
              => call'.log = << <<"generic_connect", row.device, ~row.connected>> >>
        /\ (type = "BUTTON_PRESS" /\ button = 3 /\ onRow /\ Blueman)
              => call'.log = << <<"popup_at_pointer">> >>
        /\ (type = "BUTTON_RELEASE" \/ ~onRow \/ ~Blueman)
              => call'.log = <<>> /\ menu' = menu

C9_ClickEffects ==
    [][call'.op = "on_event_clicked" =>
          \A type \in EventTypes, button \in Buttons :
          \A p \in FlagProps(DeviceOf(call'.row)) :
              OnEventClicked(type, button, call'.row, p)
                  => C9_Effect(type, button, call'.row, p)]_vars

\* C9 witness: a double-click on the row of a connected device asked the
\* menu, created by this or an earlier click, to disconnect it
C9_Witness ==
    /\ call.op = "on_event_clicked"
    /\ call.row \in 1..Len(liststore)
    /\ rows[liststore[call.row]].connected
    /\ menu
    /\ call.log = << <<"generic_connect", rows[liststore[call.row]].device, FALSE>> >>

\* ---------------------------------------- specification: tooltips
Columns == {"device_surface", "caption", "rssi_pb", "lq_pb", "tpl_pb"}
LevelColumns == {"tpl_pb", "lq_pb", "rssi_pb"}

rssi_state(rssi) ==
    IF rssi < Pct(30) THEN "Poor"
    ELSE IF rssi < Pct(40) THEN "Sub-optimal"
    ELSE IF rssi < Pct(60) THEN "Optimal"
    ELSE IF rssi < Pct(70) THEN "Much"
    ELSE "Too much"
tpl_state(tpl) ==
    IF tpl < Pct(30) THEN "Low"
    ELSE IF tpl < Pct(40) THEN "Sub-optimal"
    ELSE IF tpl < Pct(60) THEN "Optimal"
    ELSE IF tpl < Pct(70) THEN "High"
    ELSE "Very High"
\* "%u" % x on a float: the integer part of x
FormatU(x) == IF x >= 0 THEN x \div PercScale ELSE 0 - ((0 - x) \div PercScale)
\* The markup of the signal tooltip: the template of the column, filled in
SignalMarkup(col, row) ==
    <<"Connected", col, FormatU(row.rssi), rssi_state(row.rssi), FormatU(row.lq),
      FormatU(row.tpl), tpl_state(row.tpl)>>

\* (mutant) the level columns do not look at the connected flag
tooltip_query_AlwaysSignal(pos, col) ==
    LET path == get_path_at_pos(pos)
        no == [ret |-> FALSE, markup |-> None,
               tooltip_row |-> tooltip_row, tooltip_col |-> tooltip_col]
    IN  IF path = 0 THEN no
        ELSE IF path # tooltip_row \/ col # tooltip_col
        THEN [no EXCEPT !.tooltip_row = path, !.tooltip_col = col]
        ELSE LET row == rows[liststore[path]]
             IN  IF col = "device_surface"
                 THEN IF row.trusted /\ row.paired
                      THEN [no EXCEPT !.ret = TRUE, !.markup = <<"<b>Trusted and Paired</b>">>]
                      ELSE IF row.paired
                      THEN [no EXCEPT !.ret = TRUE, !.markup = <<"<b>Paired</b>">>]
                      ELSE IF row.trusted
                      THEN [no EXCEPT !.ret = TRUE, !.markup = <<"<b>Trusted</b>">>]
                      ELSE no
                 ELSE IF col \in LevelColumns
                 THEN [no EXCEPT !.ret = TRUE, !.markup = SignalMarkup(col, row)]
                 ELSE no

\* tooltip_query(_tw, x, y, _kb, tooltip): what it returns, the markup it
\* sets and the position it remembers; col is the column under the pointer
tooltip_query(pos, col) ==
    LET path == get_path_at_pos(pos)
        no == [ret |-> FALSE, markup |-> None,
               tooltip_row |-> tooltip_row, tooltip_col |-> tooltip_col]
    IN  IF path = 0 THEN no
        ELSE IF path # tooltip_row \/ col # tooltip_col
        THEN [no EXCEPT !.tooltip_row = path, !.tooltip_col = col]
        ELSE LET row == rows[liststore[path]]
             IN  IF col = "device_surface"
                 THEN IF row.trusted /\ row.paired
                      THEN [no EXCEPT !.ret = TRUE, !.markup = <<"<b>Trusted and Paired</b>">>]
                      ELSE IF row.paired
                      THEN [no EXCEPT !.ret = TRUE, !.markup = <<"<b>Paired</b>">>]
                      ELSE IF row.trusted
                      THEN [no EXCEPT !.ret = TRUE, !.markup = <<"<b>Trusted</b>">>]
                      ELSE no
                 ELSE IF col \in LevelColumns
                 THEN IF row.connected
                      THEN [no EXCEPT !.ret = TRUE, !.markup = SignalMarkup(col, row)]
                      ELSE no
                 ELSE no

\* The query-tooltip signal with the pointer at position pos, column col
\* (pos = 0: over no row, and then over no column either)
QueryPos(pos, col) == IF get_path_at_pos(pos) = 0 THEN <<0, "">> ELSE <<pos, col>>
TooltipQuery(pos, col) ==
    /\ LET r == tooltip_query(pos, col)
       IN  /\ tooltip_row' = r.tooltip_row
           /\ tooltip_col' = r.tooltip_col
           /\ call' = [op |-> "tooltip_query", row |-> pos, col |-> col, ret |-> r.ret,
                       markup |-> r.markup, log |-> <<>>]
    /\ lastQuery' = QueryPos(pos, col)
    /\ UNCHANGED <<rows, liststore, nextRow, faders, faderhandlers, selection, menu,
                   err, envVars>>

TipCInfo == CInfo(FALSE, <<0 - 32>>, <<LqMax - 5>>, <<0>>)

NextTooltip ==
    \/ \E d \in Devices : \E p \in FlagProps(d) : DeviceAddEvent(d, p)
    \/ \E r \in 1..MaxRows : LevelSetupEvent(r, TipCInfo)
    \/ \E pos \in 0..MaxRows, col \in Columns : TooltipQuery(pos, col)

SpecTooltip == InitRows /\ [][NextTooltip]_vars

\* The tooltip of the device-icon column for a row's flags (None: none)
BadgeMarkup(row) ==
    IF row.trusted /\ row.paired THEN <<"<b>Trusted and Paired</b>">>
    ELSE IF row.paired THEN <<"<b>Paired</b>">>
    ELSE IF row.trusted THEN <<"<b>Trusted</b>">>
    ELSE None

\* C10 as stated: tooltip_query returns True only if the immediately
\* preceding query was over the same (row, column).
C10_Original ==
    [][(call'.op = "tooltip_query" /\ call'.ret) => lastQuery = <<call'.row, call'.col>>]_vars

\* C10: tooltip_query returns True only at the remembered position
\* (tooltip_row, tooltip_col), which is the position of the latest query
\* that was over a row; a query over a row at another position records the
\* position and returns False; a query over no row returns False and
\* leaves the remembered position. At the remembered position the
\* device-icon column shows 'Trusted and Paired', 'Paired' or 'Trusted' by
\* the row's flags and nothing when neither is set, a level column shows
\* the signal tooltip exactly when the row is connected, and any other
\* column shows nothing. No row is changed.
C10_Effect(pos, col) ==
    LET onRow == pos \in 1..Len(liststore)
        same == onRow /\ pos = tooltip_row /\ col = tooltip_col
        row == rows[liststore[pos]]
    IN  /\ rows' = rows /\ liststore' = liststore /\ faders' = faders
        /\ call'.ret => same
        /\ (onRow /\ ~same) =>
               /\ ~call'.ret
               /\ tooltip_row' = pos /\ tooltip_col' = col
        /\ ~onRow => ~call'.ret /\ tooltip_row' = tooltip_row /\ tooltip_col' = tooltip_col
        /\ same =>
               /\ tooltip_row' = pos /\ tooltip_col' = col
               /\ col = "device_surface" =>
                      /\ call'.ret = (row.trusted \/ row.paired)
                      /\ call'.markup = BadgeMarkup(row)
               /\ col \in LevelColumns =>
                      /\ call'.ret = row.connected
                      /\ call'.markup = IF row.connected THEN SignalMarkup(col, row) ELSE None
               /\ col \notin LevelColumns \cup {"device_surface"} => ~call'.ret

C10_TooltipAtRememberedPosition ==
    [][call'.op = "tooltip_query" =>
          (TooltipQuery(call'.row, call'.col) => C10_Effect(call'.row, call'.col))]_vars

\* C10 witness: a repeated query over the link-quality column of a connected
\* row whose levels are shown returned True with the signal tooltip, and
\* the row is trusted but not paired
C10_Witness ==
    /\ call.op = "tooltip_query"
    /\ call.ret
    /\ call.col = "lq_pb"
    /\ call.row \in 1..Len(liststore)
    /\ LET row == rows[liststore[call.row]]
       IN  /\ row.connected /\ row.levels_visible
           /\ call.markup = SignalMarkup("lq_pb", row)
           /\ rssi_state(row.rssi) = "Sub-optimal"
           /\ tpl_state(row.tpl) = "Optimal"
           /\ row.trusted /\ ~row.paired

\* ------------------------------------ specification: drag and drop
\* The URI lists a drop can carry
UriLists == {<<>>, <<"file:///a">>, <<"file:///a", "file:///b">>}

\* drag_recv(_widget, context, x, y, selection, _info, time): the calls it
\* makes on the drag context and the launcher, in order; d is the device
\* of the row under the drop point
drag_recv(pos, uris, d) ==
    LET path == get_path_at_pos(pos)
        first == << <<"finish", TRUE>> >>
    IN  IF path # 0
        THEN first \o << <<"launch", Address(d), uris>>, <<"finish", TRUE>> >>
        ELSE first \o << <<"finish", FALSE>> >>

\* drag_motion(_widget, drag_context, x, y, timestamp): what it returns,
\* the row it leaves selected and the calls it makes; p is what the device
\* of the row under the pointer answers
drag_motion(pos, p) ==
    LET path == get_path_at_pos(pos)
    IN  IF path # 0
        THEN IF liststore[path] # selection
             THEN IF has_objpush(p.UUIDs)
                  THEN [ret |-> TRUE, selection |-> liststore[path],
                        log |-> << <<"drag_status", "COPY">>, <<"set_cursor", path>> >>]
                  ELSE [ret |-> FALSE, selection |-> selection,
                        log |-> << <<"drag_status", "DEFAULT">> >>]
             ELSE [ret |-> FALSE, selection |-> selection, log |-> <<>>]
        ELSE [ret |-> FALSE, selection |-> selection,
              log |-> << <<"drag_status", "DEFAULT">> >>]

DragRecv(pos, uris) ==
    /\ call' = [op |-> "drag_recv", row |-> pos, ret |-> FALSE, uris |-> uris,
                log |-> drag_recv(pos, uris, DeviceOf(pos))]
    /\ UNCHANGED <<rows, liststore, nextRow, faders, faderhandlers, uiVars, err, envVars>>

DragMotion(pos, p) ==
    /\ LET r == drag_motion(pos, p)
       IN  /\ selection' = r.selection
           /\ call' = [op |-> "drag_motion", row |-> pos, ret |-> r.ret, log |-> r.log]
    /\ UNCHANGED <<rows, liststore, nextRow, faders, faderhandlers, tooltip_row,
                   tooltip_col, menu, lastQuery, err, envVars>>

\* What the device under the pointer answers during a drag
DragProps == {[DefaultProps EXCEPT !.UUIDs = u] :
                 u \in {{}, {CustomUuid}, {Uuid(ObexObjpush + 6), Uuid(ObexObjpush)}}}

NextDrag ==
    \/ \E d \in Devices, p \in DragProps : DeviceAddEvent(d, p)
    \/ \E pos \in 0..MaxRows, p \in DragProps : DragMotion(pos, p)
    \/ \E pos \in 0..MaxRows, uris \in UriLists : DragRecv(pos, uris)

SpecDrag == InitRows /\ [][NextDrag]_vars

\* The places in a handler's log where the drag context is finished
Finishes(log) == {i \in DOMAIN log : log[i][1] = "finish"}

\* C11: drag_motion reports COPY, moves the cursor to the row and returns
\* True iff the pointer is over a row that is not selected and whose
\* device advertises OBEX Object Push, and returns False otherwise;
\* drag_recv launches the file sender for the device under the drop point
\* with the dropped URIs, launches nothing when no row is there, and
\* finishes the drag context exactly once, with success iff a row was
\* under the drop point.
C11_Motion(pos, p) ==
    LET onRow == pos \in 1..Len(liststore)
        accept == onRow /\ liststore[pos] # selection /\ Uuid(ObexObjpush) \in p.UUIDs
    IN  /\ call'.ret = accept
        /\ accept => /\ call'.log = << <<"drag_status", "COPY">>, <<"set_cursor", pos>> >>
                     /\ selection' = liststore[pos]
        /\ ~accept => selection' = selection

C11_Recv(pos) ==
    LET onRow == pos \in 1..Len(liststore)
        log == call'.log
    IN  /\ onRow => \E i \in DOMAIN log :
                        log[i] = <<"launch", Address(DeviceOf(pos)), call'.uris>>
        /\ ~onRow => \A i \in DOMAIN log : log[i][1] # "launch"
        /\ Cardinality(Finishes(log)) = 1
        /\ \A i \in Finishes(log) : log[i][2] = onRow

C11_DragAndDrop ==
    [][/\ call'.op = "drag_motion" =>
             \A p \in DragProps : DragMotion(call'.row, p) => C11_Motion(call'.row, p)
       /\ call'.op = "drag_recv" => C11_Recv(call'.row)]_vars

\* --------------------------------------- specification: captions
\* Devices of every class the model uses, with and without an Appearance
CaptionProps == Props({"Kbd"}, ClassSet, {0, 1}, {"False"}, {{}})

NextCaption ==
    \/ \E d \in Devices, p \in CaptionProps : DeviceAddEvent(d, p)
    \/ \E r \in 1..MaxRows, value \in Aliases, p \in CaptionProps :
           RowUpdateEvent(r, "Alias", value, p)
    \/ \E th \in Themes, pf \in [DOMAIN rows -> CaptionProps] : OnIconThemeChanged(th, pf)

SpecCaption == InitRows /\ [][NextCaption]_vars

\* The caption row_setup_event writes for the row's device when the device
\* answers p
SetupCaption(tree_iter, p) == row_setup_event(World, tree_iter, p, icon_theme).rows[tree_iter].caption

\* C12: after row_update_event with key Alias and value v, the row's
\* caption is the caption row_setup_event produces for the same device
\* (same class, Appearance and address) with alias v.
C12_CaptionSameOnBothPaths ==
    [][(call'.op = "row_update_event" /\ call'.key = "Alias") =>
          \A value \in Aliases : \A p \in CaptionProps :
              RowUpdateEvent(call'.row, "Alias", value, p) =>
                  rows'[call'.row].caption = SetupCaption(call'.row, [p EXCEPT !.Alias = value])]_vars

\* -------------------------------------------- claims: _faderhandlers
\* A removal fade-out for device d is pending: an animation runs on a fader
\* that holds the handler device_remove_event connected for d
FadeOutPending(d) ==
    \E f \in DOMAIN faders :
        /\ Running(faders[f])
        /\ \E i \in DOMAIN faders[f].handlers :
               faders[f].handlers[i].kind = "remove" /\ faders[f].handlers[i].device = d

\* C13: under every interleaving of device_add_event, device_remove_event
\* and animation-finished callbacks, __on_fader_finished never pops a
\* missing key, _faderhandlers has an entry for a device exactly while a
\* removal fade-out for it is pending, no fader whose animation has
\* finished keeps a removal handler, and the map is empty when no
\* animation runs.
C13_FaderHandlersConsistent ==
    /\ ~err
    /\ \A d \in Devices : (d \in DOMAIN faderhandlers) <=> FadeOutPending(d)
    /\ \A f \in DOMAIN faders :
           (\E i \in DOMAIN faders[f].handlers : faders[f].handlers[i].kind = "remove")
               => Running(faders[f])
    /\ (\A f \in DOMAIN faders : ~Running(faders[f])) => faderhandlers = <<>>
====
